---- MODULE Spec2Model ----
(***************************************************************************)
(* Model of lab/download-phoenix-imagery.py: export of imagery from an     *)
(* ArcGIS ImageServer (exportImage) into a Cloud Optimized GeoTIFF.        *)
(*                                                                         *)
(* Python floats are IEEE binary floating point numbers with rounding to   *)
(* nearest, ties to even.  The model keeps that arithmetic and its         *)
(* rounding rule at a reduced width: a float is an integer number of       *)
(* units of 1/Scale whose significand has at most Prec bits.  Every        *)
(* arithmetic operation of the source is the exact operation followed by   *)
(* RN, as in IEEE 754.  Overflow to infinity is outside the bounds.        *)
(***************************************************************************)
EXTENDS Integers, Sequences, FiniteSets, TLC

\* ---------------------------------------------------------------- bounds
Prec == 8          \* bits of the significand of a float
FracBits == 11     \* binary digits after the point of the finest floats
MaxRows == 2       \* rows of the CSV file

Scale == 2 ^ FracBits          \* units per 1.0
None == << >>                  \* an absent value; a present v is << v >>
Some(v) == << v >>

Max(a, b) == IF a >= b THEN a ELSE b
Min(a, b) == IF a <= b THEN a ELSE b

\* ------------------------------------------------------ float arithmetic
\* nearest integer to n/d (d > 0), ties to the even integer: the rounding of
\* IEEE 754 and of Python's round() on a float
RoundHalfEven(n, d) ==
  LET f == n \div d
      r == n % d
  IN  IF 2 * r < d THEN f
      ELSE IF 2 * r > d THEN f + 1
      ELSE IF f % 2 = 0 THEN f ELSE f + 1

RECURSIVE RNabs(_, _, _)
\* the float nearest to the rational n/d >= 0 (in units): the significand is
\* n/(d*step) rounded to an integer below 2^Prec, step the power of two
RNabs(n, d, step) ==
  IF n < (2 ^ Prec) * d * step
    THEN RoundHalfEven(n, d * step) * step
    ELSE RNabs(n, d, 2 * step)

RN(n, d) == IF n >= 0 THEN RNabs(n, d, 1) ELSE 0 - RNabs(0 - n, d, 1)

FromInt(i) == RN(i * Scale, 1)           \* int -> float
FAdd(a, b) == RN(a + b, 1)               \* a + b
FSub(a, b) == RN(a - b, 1)               \* a - b
FMul(a, b) == RN(a * b, Scale)           \* a * b
FDiv(a, b) == RN(a * Scale, b)           \* a / b
IntTrueDiv(i, j) == RN(i * Scale, j)     \* int / int, a float
PyRound(q) == RoundHalfEven(q, Scale)    \* int(round(q))
Ceil(q) == 0 - ((0 - q) \div Scale)      \* math.ceil(q)

Dec(t) == RN(t * Scale, 10)              \* the float literal t/10

\* the literal 1e-9 of compute_size_from_bbox_and_pixels: the smallest extent
\* a side is taken to have, a float far below 1.0 (in units)
Eps == 4

\* ------------------------------------------------ geometry + tiling helpers
\* transform_bbox_wgs84_to_service: the two corners are projected by pyproj
\* (c holds the projected corners x1, y1, x2, y2), then put in min/max form
transform_bbox_wgs84_to_service(c) ==
  << Min(c[1], c[3]), Min(c[2], c[4]), Max(c[1], c[3]), Max(c[2], c[4]) >>

\* mutant of AxisPixels: the count is not raised to 1
AxisPixelsNoFloor(lo, hi, pix) ==
  LET w == Max(Eps, FSub(hi, lo))
  IN  PyRound(FDiv(w, pix))

\* one axis of compute_size_from_bbox_and_pixels
AxisPixels(lo, hi, pix) ==
  LET w == Max(Eps, FSub(hi, lo))
  IN  Max(1, PyRound(FDiv(w, pix)))

compute_size_from_bbox_and_pixels(b, pix_x, pix_y) ==
  << AxisPixels(b[1], b[3], pix_x), AxisPixels(b[2], b[4], pix_y) >>

\* one axis of tile_counts
AxisCount(size, maxSize) ==
  IF size > maxSize THEN Ceil(IntTrueDiv(size, maxSize)) ELSE 1

tile_counts(width, height, max_w, max_h) ==
  << AxisCount(width, max_w), AxisCount(height, max_h) >>

\* the tile of column ix, row iy (both from 0) of subdivide_bbox
TileAt(b, nx, ny, ix, iy) ==
  LET dx == FDiv(FSub(b[3], b[1]), FromInt(nx))
      dy == FDiv(FSub(b[4], b[2]), FromInt(ny))
  IN  << FAdd(b[1], FMul(FromInt(ix), dx)),
         FAdd(b[2], FMul(FromInt(iy), dy)),
         FAdd(b[1], FMul(FromInt(ix + 1), dx)),
         FAdd(b[2], FMul(FromInt(iy + 1), dy)) >>

\* subdivide_bbox: rows outermost, columns innermost
subdivide_bbox(b, nx, ny) ==
  [ k \in 1 .. nx * ny |-> TileAt(b, nx, ny, (k - 1) % nx, (k - 1) \div nx) ]

\* the part of shapely's box(b).intersection(box(e)) the source looks at
Disjoint(b, e) == b[3] < e[1] \/ e[3] < b[1] \/ b[4] < e[2] \/ e[4] < b[2]
InterBounds(b, e) ==
  << Max(b[1], e[1]), Max(b[2], e[2]), Min(b[3], e[3]), Min(b[4], e[4]) >>
Collapsed(b) == b[1] = b[3] \/ b[2] = b[4]

\* clip_bbox_to_service_extent, ext the "extent" of the metadata document or
\* None: the set of its outcomes, the rectangle returned or the ValueError
\* (ok FALSE).  box() of a rectangle without area is no valid polygon and
\* the overlay may keep it as a line or a point or drop it: both outcomes
\* are possible.
Returned(b) == [ok |-> TRUE, bbox |-> b]
Raised == [ok |-> FALSE, bbox |-> << >>]
\* mutant of clip_bbox_to_service_extent: the rectangle asked for is returned
\* whenever it meets the extent
clip_without_intersection(b, ext) ==
  IF ext = None THEN { Returned(b) }
  ELSE IF Disjoint(b, ext[1]) THEN { Raised }
  ELSE { Returned(b) }

clip_bbox_to_service_extent(b, ext) ==
  IF ext = None THEN { Returned(b) }
  ELSE IF Disjoint(b, ext[1]) THEN { Raised }
  ELSE IF Collapsed(b) THEN { Raised, Returned(InterBounds(b, ext[1])) }
  ELSE { Returned(InterBounds(b, ext[1])) }

\* meters_to_service_units: to_meter of the target CRS, else feet
Feet == RN(3048 * Scale, 10000)
meters_to_service_units(meters, to_meter) ==
  IF to_meter # None /\ to_meter[1] > 0 THEN FDiv(meters, to_meter[1])
  ELSE FDiv(meters, Feet)

\* the pixel size run_bbox_mode and run_csv_mode use
Third == FDiv(FromInt(1), FromInt(3))
Truthy(v) == v # None /\ v[1] # 0
PickPixelSize(pixel_size, psx, psy) ==
  IF pixel_size # None THEN << pixel_size[1], pixel_size[1] >>
  ELSE << IF Truthy(psx) THEN psx[1] ELSE Third,
          IF Truthy(psy) THEN psy[1] ELSE Third >>

\* ------------------------------------------------------------------ state
VARIABLES
  pc,           \* position in run_bbox_mode / run_csv_mode
  args,         \* the parsed command line (and the rows of the CSV file)
  service,      \* ServiceInfo returned by fetch_service_info, or None
  pix,          \* << pix_x, pix_y >>
  buf_dist,     \* buffer distance in service units (csv mode)
  row,          \* the area being exported: 1 in bbox mode, the CSV row
  bbox_native,  \* the clipped native rectangle of the area
  grid,         \* << width, height, nx, ny >> of the area
  tiles,        \* the plan: the list returned by subdivide_bbox
  parts,        \* paths of the fragments written for the area
  files,        \* fragment files on storage
  requests,     \* exportImage requests issued, in order
  mosaics,      \* calls of mosaic_and_write_cog, in order
  written,      \* areas whose output raster was written, in order
  metaQueries,  \* GETs of the service base endpoint
  infoFetches,  \* calls of fetch_service_info
  unlinkFailed, \* fragments whose unlink raised
  clips,        \* calls of clip_bbox_to_service_extent
  clipExt,      \* the "extent" the last of them read, or None
  err           \* the exception that ended the run

vars == << pc, args, service, pix, buf_dist, row, bbox_native, grid, tiles,
           parts, files, requests, mosaics, written, metaQueries,
           infoFetches, unlinkFailed, clips, clipExt, err >>

NumAreas == IF args.mode = "bbox" THEN 1 ELSE Len(args.rows)
Stem(r) == IF args.mode = "bbox" THEN args.out ELSE args.rows[r].stem
PartPath(r, i) == << Stem(r), i >>

\* the native rectangle asked for: the transformed --bbox, or the square
\* around the projected point of the row
RequestedArea(r) ==
  IF args.mode = "bbox" THEN transform_bbox_wgs84_to_service(args.bbox)
  ELSE LET x == args.rows[r].x
           y == args.rows[r].y
       IN  << FSub(x, buf_dist), FSub(y, buf_dist),
              FAdd(x, buf_dist), FAdd(y, buf_dist) >>

\* ----------------------------------------------------------------- inputs
\* what the command line, the CSV file and the server's answers are drawn
\* from; all coordinates and sizes are floats, in units
ServiceExtent == << 0, 0, Dec(30), Dec(30) >>
Extents == { None, Some(ServiceExtent) }
MaxDims == { << 4, 4 >>, << 8, 4 >> }                   \* maxImageWidth/Height
KeyProps == { << None, None >>, << Some(Dec(10)), Some(Dec(5)) >>,
              << Some(0), Some(Dec(10)) >> }
ToMeters == { None, Some(Dec(10)) }

\* projected corners of --bbox: inside the extent, corners swapped by the
\* projection, across an edge of the extent, touching it, outside of it
Corners == { << Dec(5), Dec(5), Dec(25), Dec(15) >>,
             << Dec(25), Dec(25), Dec(5), Dec(5) >>,
             << Dec(20), Dec(10), Dec(40), Dec(30) >>,
             << Dec(30), Dec(10), Dec(50), Dec(20) >>,
             << Dec(40), Dec(10), Dec(60), Dec(20) >> }
Buffers == { 0, Dec(3) }
Stems == { "a", "b" }
Rows == [x : {Dec(10)}, y : {Dec(10)}, stem : Stems]
          \cup [x : {Dec(30)}, y : {Dec(20)}, stem : {"a"}]
RowLists == UNION { [1 .. n -> Rows] : n \in 0 .. MaxRows }

BboxArgs ==
  [mode : {"bbox"}, keep_parts : BOOLEAN, pixel_size : {None, Some(Dec(5))},
   bbox : Corners, out : {"out"}]
CsvArgs ==
  [mode : {"csv"}, keep_parts : BOOLEAN, pixel_size : {None, Some(Dec(5))},
   rows : RowLists, buffer : Buffers, buffer_unit : {"feet", "meters"}]

\* ---------------------------------------------------------------- actions
Abort(e) == /\ pc' = "failed"
            /\ err' = e

\* fetch_service_info and the lines up to the first area (287-297, 334-355):
\* one GET of the base endpoint, one of keyProperties (its failure is
\* swallowed, kp None/None), the choice of the pixel size and of the buffer
FetchServiceInfo ==
  /\ pc = "start"
  /\ infoFetches' = infoFetches + 1
  /\ metaQueries' = metaQueries + 1
  /\ \/ /\ \E e \in {"transport", "configuration"} : Abort(e)
        /\ UNCHANGED << service, pix, buf_dist, row >>
     \/ \E md \in MaxDims, kp \in KeyProps, tm \in ToMeters :
          /\ service' = Some([max_w |-> md[1], max_h |-> md[2],
                              pixel_size_x |-> kp[1], pixel_size_y |-> kp[2]])
          /\ pix' = PickPixelSize(args.pixel_size, kp[1], kp[2])
          /\ buf_dist' =
               IF args.mode = "bbox" THEN buf_dist
               ELSE IF args.buffer_unit = "meters"
                 THEN meters_to_service_units(args.buffer, tm)
                 ELSE args.buffer
          /\ row' = IF NumAreas >= 1 THEN 1 ELSE 0
          /\ pc' = IF NumAreas >= 1 THEN "clip" ELSE "done"
          /\ err' = err
  /\ UNCHANGED << args, bbox_native, grid, tiles, parts, files, requests,
                  mosaics, written, unlinkFailed, clips, clipExt >>

\* mutant of ClipArea: fetch_service_info is called again for every area
ClipAreaRefetch ==
  /\ pc = "clip"
  /\ metaQueries' = metaQueries + 1
  /\ clips' = clips + 1
  /\ infoFetches' = infoFetches + 1
  /\ \/ /\ Abort("transport")
        /\ UNCHANGED << bbox_native, clipExt >>
     \/ \E ext \in Extents :
        \E out \in clip_bbox_to_service_extent(RequestedArea(row), ext) :
          /\ clipExt' = ext
          /\ IF out.ok
               THEN /\ bbox_native' = out.bbox
                    /\ pc' = "plan"
                    /\ err' = err
               ELSE /\ Abort("extent")
                    /\ UNCHANGED bbox_native
  /\ UNCHANGED << args, service, pix, buf_dist, row, grid, tiles, parts,
                  files, requests, mosaics, written, unlinkFailed >>

\* lines 300-302 and 367-379: the requested native rectangle, then
\* clip_bbox_to_service_extent with its own GET of the base endpoint
ClipArea ==
  /\ pc = "clip"
  /\ metaQueries' = metaQueries + 1
  /\ clips' = clips + 1
  /\ \/ /\ Abort("transport")
        /\ UNCHANGED << bbox_native, clipExt >>
     \/ \E ext \in Extents :
        \E out \in clip_bbox_to_service_extent(RequestedArea(row), ext) :
          /\ clipExt' = ext
          /\ IF out.ok
               THEN /\ bbox_native' = out.bbox
                    /\ pc' = "plan"
                    /\ err' = err
               ELSE /\ Abort("extent")
                    /\ UNCHANGED bbox_native
  /\ UNCHANGED << args, service, pix, buf_dist, row, grid, tiles, parts,
                  files, requests, mosaics, written, infoFetches,
                  unlinkFailed >>

\* lines 305-311 and 382-386: the pixel grid, the tile counts, the plan
PlanTiles ==
  /\ pc = "plan"
  /\ LET size == compute_size_from_bbox_and_pixels(bbox_native, pix[1], pix[2])
         n == tile_counts(size[1], size[2], service[1].max_w, service[1].max_h)
     IN  /\ grid' = << size[1], size[2], n[1], n[2] >>
         /\ tiles' = subdivide_bbox(bbox_native, n[1], n[2])
  /\ parts' = << >>
  /\ pc' = "export"
  /\ UNCHANGED << args, service, pix, buf_dist, row, bbox_native, files,
                  requests, mosaics, written, metaQueries, infoFetches,
                  unlinkFailed, clips, clipExt, err >>

\* mutant of ExportTile: a failed fetch is passed over and the loop goes on
ExportTileIgnoreFailure ==
  /\ pc = "export"
  /\ Len(parts) < Len(tiles)
  /\ LET i == Len(parts) + 1
         tile == tiles[i]
         size == compute_size_from_bbox_and_pixels(tile, pix[1], pix[2])
         part_path == PartPath(row, i)
     IN  \E ok \in BOOLEAN :
           /\ requests' = Append(requests,
                [row |-> row, i |-> i, bbox |-> tile, size |-> size,
                 path |-> part_path, ok |-> ok])
           /\ IF ok
                THEN /\ files' = files \cup { part_path }
                     /\ parts' = Append(parts, part_path)
                     /\ pc' = IF i = Len(tiles) THEN "mosaic" ELSE "export"
                     /\ err' = err
                ELSE /\ parts' = Append(parts, part_path)
                     /\ pc' = IF i = Len(tiles) THEN "mosaic" ELSE "export"
                     /\ UNCHANGED << files, err >>
  /\ UNCHANGED << args, service, pix, buf_dist, row, bbox_native, grid,
                  tiles, mosaics, written, metaQueries, infoFetches,
                  unlinkFailed, clips, clipExt >>

\* mutant of ExportTile: a failed fetch is tried once more
ExportTileRetryOnce ==
  /\ pc = "export"
  /\ Len(parts) < Len(tiles)
  /\ LET i == Len(parts) + 1
         tile == tiles[i]
         size == compute_size_from_bbox_and_pixels(tile, pix[1], pix[2])
         part_path == PartPath(row, i)
     IN  \E ok \in BOOLEAN :
           /\ requests' = Append(requests,
                [row |-> row, i |-> i, bbox |-> tile, size |-> size,
                 path |-> part_path, ok |-> ok])
           /\ IF ok
                THEN /\ files' = files \cup { part_path }
                     /\ parts' = Append(parts, part_path)
                     /\ pc' = IF i = Len(tiles) THEN "mosaic" ELSE "export"
                     /\ err' = err
                ELSE IF \E k \in 1 .. Len(requests) :
                          requests[k].row = row /\ requests[k].i = i
                       THEN /\ Abort("transport")
                            /\ UNCHANGED << files, parts >>
                       ELSE UNCHANGED << pc, err, files, parts >>
  /\ UNCHANGED << args, service, pix, buf_dist, row, bbox_native, grid,
                  tiles, mosaics, written, metaQueries, infoFetches,
                  unlinkFailed, clips, clipExt >>

\* one turn of the loop of lines 312-317 and 388-393: export_image of the
\* next tile; raise_for_status or the GET itself may raise
ExportTile ==
  /\ pc = "export"
  /\ Len(parts) < Len(tiles)
  /\ LET i == Len(parts) + 1
         tile == tiles[i]
         size == compute_size_from_bbox_and_pixels(tile, pix[1], pix[2])
         part_path == PartPath(row, i)
     IN  \E ok \in BOOLEAN :
           /\ requests' = Append(requests,
                [row |-> row, i |-> i, bbox |-> tile, size |-> size,
                 path |-> part_path, ok |-> ok])
           /\ IF ok
                THEN /\ files' = files \cup { part_path }
                     /\ parts' = Append(parts, part_path)
                     /\ pc' = IF i = Len(tiles) THEN "mosaic" ELSE "export"
                     /\ err' = err
                ELSE /\ Abort("transport")
                     /\ UNCHANGED << files, parts >>
  /\ UNCHANGED << args, service, pix, buf_dist, row, bbox_native, grid,
                  tiles, mosaics, written, metaQueries, infoFetches,
                  unlinkFailed, clips, clipExt >>

\* mosaic_and_write_cog (lines 319-322, 395-397): Translate of the one part,
\* or BuildVRT and Translate; gdal raises on failure
Mosaic ==
  /\ pc = "mosaic"
  /\ mosaics' = Append(mosaics,
       [row |-> row, parts |-> parts, plan |-> tiles,
        at |-> Len(requests),
        how |-> IF Len(parts) = 1 THEN "translate" ELSE "vrt"])
  /\ \/ /\ written' = Append(written, row)
        /\ pc' = "cleanup"
        /\ err' = err
     \/ /\ Abort("encoding")
        /\ UNCHANGED written
  /\ UNCHANGED << args, service, pix, buf_dist, row, bbox_native, grid,
                  tiles, parts, files, requests, metaQueries, infoFetches,
                  unlinkFailed, clips, clipExt >>

\* lines 325-330 and 399-404: unlink of every part unless --keep-parts, an
\* unlink that raises is passed over; then the next row, or the end
Cleanup ==
  /\ pc = "cleanup"
  /\ IF args.keep_parts
       THEN UNCHANGED << files, unlinkFailed >>
       ELSE \E failed \in SUBSET { parts[k] : k \in 1 .. Len(parts) } :
              /\ files' = files \ ({ parts[k] : k \in 1 .. Len(parts) } \ failed)
              /\ unlinkFailed' = unlinkFailed \cup failed
  /\ IF row < NumAreas
       THEN /\ row' = row + 1
            /\ pc' = "clip"
       ELSE /\ row' = row
            /\ pc' = "done"
  /\ UNCHANGED << args, service, pix, buf_dist, bbox_native, grid, tiles,
                  parts, requests, mosaics, written, metaQueries,
                  infoFetches, clips, clipExt, err >>

\* ----------------------------------------------------------- specifications
InitRest ==
  /\ bbox_native = << >>
  /\ grid = << >>
  /\ tiles = << >>
  /\ parts = << >>
  /\ files = {}
  /\ requests = << >>
  /\ mosaics = << >>
  /\ written = << >>
  /\ unlinkFailed = {}
  /\ clips = 0
  /\ clipExt = None
  /\ err = "none"

\* main() has parsed the command line, nothing has run
Init ==
  /\ pc = "start"
  /\ args \in BboxArgs \cup CsvArgs
  /\ service = None
  /\ pix = << >>
  /\ buf_dist = 0
  /\ row = 0
  /\ metaQueries = 0
  /\ infoFetches = 0
  /\ InitRest

Next == \/ FetchServiceInfo
        \/ ClipArea
        \/ PlanTiles
        \/ ExportTile
        \/ Mosaic
        \/ Cleanup

Spec == Init /\ [][Next]_vars

\* The planner on its own: fetch_service_info has returned, and ClipArea
\* and PlanTiles run as in the program, on ordinary areas (sides of a few
\* pixels, some with a negative coordinate) and on areas whose sides are
\* about Eps with pixels smaller than Eps.
PlanCoords == { Dec(0 - 7), 0, Dec(4), Dec(14), Dec(36), Dec(50) }
PlanPixelSizes == { << Dec(10), Dec(10) >>, << Dec(5), Dec(10) >>,
                    << Dec(5), Dec(3) >> }
PlanMaxDims == { << 2, 2 >>, << 4, 3 >>, << 16, 16 >> }
TinyCoords == { 0, 2, 8, 16 }
TinyPixelSizes == { << 1, 1 >>, << 1, 2 >> }
TinyMaxDims == { << 1, 1 >>, << 2, 2 >> }

PlanInputs ==
  ((PlanCoords \X PlanCoords \X PlanCoords \X PlanCoords)
      \X PlanPixelSizes \X PlanMaxDims)
  \cup ((TinyCoords \X TinyCoords \X TinyCoords \X TinyCoords)
      \X TinyPixelSizes \X TinyMaxDims)

InitPlan ==
  /\ pc = "clip"
  /\ \E in \in PlanInputs :
       /\ args = [mode |-> "bbox", keep_parts |-> FALSE, pixel_size |-> None,
                  bbox |-> in[1], out |-> "out"]
       /\ service = Some([max_w |-> in[3][1], max_h |-> in[3][2],
                          pixel_size_x |-> Some(in[2][1]),
                          pixel_size_y |-> Some(in[2][2])])
       /\ pix = PickPixelSize(None, Some(in[2][1]), Some(in[2][2]))
  /\ buf_dist = 0
  /\ row = 1
  /\ metaQueries = 1
  /\ infoFetches = 1
  /\ InitRest

NextPlan == \/ ClipArea
            \/ PlanTiles

SpecPlan == InitPlan /\ [][NextPlan]_vars

\* ------------------------------------------------------------- properties
\* the plan in tiles belongs to bbox_native, grid, pix and service
PlanValid == pc \in {"export", "mosaic", "cleanup"}

\* the size ExportTile sends for the k-th tile of the plan
TileSize(k) == compute_size_from_bbox_and_pixels(tiles[k], pix[1], pix[2])

Proper(b) == b[1] < b[3] /\ b[2] < b[4]

\* C1: every tile's recomputed pixel size has width <= maxW and
\* height <= maxH (stated for the rectangles R with minX < maxX and
\* minY < maxY).
C1_TilesWithinMax ==
  (PlanValid /\ Proper(bbox_native)) =>
    \A k \in 1 .. Len(tiles) :
      /\ TileSize(k)[1] <= service[1].max_w
      /\ TileSize(k)[2] <= service[1].max_h

\* Supporting lemma for C1: the bound does hold for every plan none of whose
\* tiles has a side below Eps, the case in which compute_size_from_bbox_and_
\* pixels replaces the side by Eps.
NoSideBelowEps ==
  \A k \in 1 .. Len(tiles) :
    tiles[k][3] - tiles[k][1] >= Eps /\ tiles[k][4] - tiles[k][2] >= Eps
TilesWithinMaxAboveEps ==
  (PlanValid /\ NoSideBelowEps) =>
    \A k \in 1 .. Len(tiles) :
      /\ TileSize(k)[1] <= service[1].max_w
      /\ TileSize(k)[2] <= service[1].max_h

RECURSIVE SumAreas(_, _)
SumAreas(ts, k) ==
  IF k = 0 THEN 0
  ELSE (ts[k][3] - ts[k][1]) * (ts[k][4] - ts[k][2]) + SumAreas(ts, k - 1)

\* C2: subdivide_bbox returns nx*ny rectangles in row-major order that
\* partition R: neighbours share their common edge, the outer edges are
\* R's edges, the areas sum to R's area (stated for the rectangles R with
\* minX < maxX and minY < maxY).
C2_ExactPartition ==
  (PlanValid /\ Proper(bbox_native)) =>
    LET nx == grid[3]
        ny == grid[4]
        R == bbox_native
        T(ix, iy) == tiles[iy * nx + ix + 1]
    IN  /\ Len(tiles) = nx * ny
        /\ \A ix \in 0 .. nx - 1, iy \in 0 .. ny - 1 :
             /\ T(ix, iy)[1] = T(ix, 0)[1] /\ T(ix, iy)[3] = T(ix, 0)[3]
             /\ T(ix, iy)[2] = T(0, iy)[2] /\ T(ix, iy)[4] = T(0, iy)[4]
             /\ ix + 1 < nx => T(ix, iy)[3] = T(ix + 1, iy)[1]
             /\ iy + 1 < ny => T(ix, iy)[4] = T(ix, iy + 1)[2]
             /\ ix = 0 => T(ix, iy)[1] = R[1]
             /\ iy = 0 => T(ix, iy)[2] = R[2]
             /\ ix = nx - 1 => T(ix, iy)[3] = R[3]
             /\ iy = ny - 1 => T(ix, iy)[4] = R[4]
        /\ SumAreas(tiles, Len(tiles)) = (R[3] - R[1]) * (R[4] - R[2])

\* C7: when the total pixel grid fits within the maximum, the plan is the
\* one tile R with the total pixel grid as its size (stated for the
\* rectangles R with minX < maxX and minY < maxY).
C7_SingleTileIsR ==
  (PlanValid /\ Proper(bbox_native)
     /\ grid[1] <= service[1].max_w /\ grid[2] <= service[1].max_h) =>
    /\ grid[3] = 1 /\ grid[4] = 1
    /\ Len(tiles) = 1
    /\ tiles[1] = bbox_native
    /\ TileSize(1) = << grid[1], grid[2] >>

\* C6: the total pixel grid and the pixel grid of every tile have width >= 1
\* and height >= 1, so no request carries a zero dimension.
C6_AtLeastOnePixel ==
  /\ PlanValid =>
       /\ grid[1] >= 1 /\ grid[2] >= 1
       /\ \A k \in 1 .. Len(tiles) : TileSize(k)[1] >= 1 /\ TileSize(k)[2] >= 1
  /\ \A k \in 1 .. Len(requests) :
       requests[k].size[1] >= 1 /\ requests[k].size[2] >= 1

\* a planned area with a side of less than half a pixel (one of length zero
\* included), whose grid is 1 in that dimension
C6_Witness ==
  /\ PlanValid
  /\ 2 * (bbox_native[3] - bbox_native[1]) < pix[1]
  /\ 2 * Eps < pix[1]
  /\ grid[1] = 1
  /\ TileSize(1)[1] = 1

Working == {"plan", "export", "mosaic", "cleanup"}

\* B lies entirely outside E: they have no point in common
EntirelyOutside(B, E) ==
  B[3] < E[1] \/ B[1] > E[3] \/ B[4] < E[2] \/ B[2] > E[4]
Inside(B, E) ==
  E[1] <= B[1] /\ B[3] <= E[3] /\ E[2] <= B[2] /\ B[4] <= E[4]

\* C4: for a requested rectangle B (minX < maxX, minY < maxY) and a declared
\* extent E, the clip fails with the out-of-extent error exactly when B lies
\* entirely outside E, and then no tile of the area is planned or fetched;
\* otherwise it returns max of the mins and min of the maxes, which is B
\* itself when B lies inside E.
C4_ClipIsIntersection ==
  (row >= 1 /\ clipExt # None /\ Proper(RequestedArea(row))) =>
    LET B == RequestedArea(row)
        E == clipExt[1]
    IN  /\ pc \in Working =>
             /\ ~ EntirelyOutside(B, E)
             /\ bbox_native =
                  << IF B[1] >= E[1] THEN B[1] ELSE E[1],
                     IF B[2] >= E[2] THEN B[2] ELSE E[2],
                     IF B[3] <= E[3] THEN B[3] ELSE E[3],
                     IF B[4] <= E[4] THEN B[4] ELSE E[4] >>
             /\ Inside(B, E) => bbox_native = B
        /\ err = "extent" =>
             /\ EntirelyOutside(B, E)
             /\ pc = "failed"
             /\ \A k \in 1 .. Len(requests) : requests[k].row # row

\* a rectangle across an edge of the extent has been clipped to the part of
\* it within the extent
C4_Witness ==
  /\ pc = "plan"
  /\ clipExt # None
  /\ Proper(RequestedArea(row))
  /\ ~ Inside(RequestedArea(row), clipExt[1])
  /\ bbox_native # RequestedArea(row)
  /\ Proper(bbox_native)

\* C10: every rectangle handed to the planner and every tile rectangle of an
\* export request has minX < maxX and minY < maxY.
C10_ProperRectangles ==
  /\ pc \in Working => Proper(bbox_native)
  /\ \A k \in 1 .. Len(requests) : Proper(requests[k].bbox)

\* C5: unless fragments are kept, once the run has ended (with the last
\* output written or on a failure) no fragment file remains, other than
\* those whose deletion was attempted and failed.
C5_NoFragmentLeft ==
  (pc \in {"done", "failed"} /\ ~ args.keep_parts) => files \subseteq unlinkFailed

\* C3: a failed tile fetch is the last request of the run, the run has
\* failed, no mosaic of that area is started and no output of it written; an
\* output is written at most once per area, only after a mosaic call that
\* followed a successful fetch of every tile of the plan, and it is written
\* whenever the area's mosaic step has returned.
C3_NoPartialSuccess ==
  /\ \A k \in 1 .. Len(requests) :
       ~ requests[k].ok =>
         /\ k = Len(requests)
         /\ pc = "failed"
         /\ \A m \in 1 .. Len(mosaics) : mosaics[m].row # requests[k].row
         /\ \A j \in 1 .. Len(written) : written[j] # requests[k].row
  /\ \A j \in 1 .. Len(written) :
       /\ \A j2 \in 1 .. Len(written) : written[j2] = written[j] => j2 = j
       /\ \E m \in 1 .. Len(mosaics) :
            /\ mosaics[m].row = written[j]
            /\ \A i \in 1 .. Len(mosaics[m].plan) :
                 \E k \in 1 .. mosaics[m].at :
                   /\ requests[k].row = written[j]
                   /\ requests[k].i = i
                   /\ requests[k].ok
  /\ pc = "cleanup" => \E j \in 1 .. Len(written) : written[j] = row

\* the fetch of a tile after the first has failed while tiles of the plan
\* were still to be fetched: the run is over and nothing was written
C3_Witness ==
  /\ pc = "failed"
  /\ Len(requests) >= 2
  /\ ~ requests[Len(requests)].ok
  /\ requests[Len(requests)].i >= 2
  /\ requests[Len(requests)].i < Len(tiles)
  /\ written = << >>

\* C8: the requests of an area are those of tiles 1, 2, 3, ... of its plan,
\* each once, each issued after the fragments of all tiles before it were
\* written, walking the plan's rows left to right and bottom row first; a
\* mosaic call is made after the last request of its area, with one fragment
\* per tile of the plan, the k-th being the one written for the k-th tile.
C8_SequentialInOrder ==
  /\ \A k \in 1 .. Len(requests) :
       LET q == requests[k]
           before == { j \in 1 .. k - 1 : requests[j].row = q.row }
       IN  /\ q.i = Cardinality(before) + 1
           /\ \A j \in before : requests[j].ok
           /\ q.path = PartPath(q.row, q.i)
           /\ q.row = row =>
                LET nx == grid[3]
                    ix == (q.i - 1) % nx
                    iy == (q.i - 1) \div nx
                IN  /\ q.i <= Len(tiles)
                    /\ q.bbox = tiles[q.i]
                    /\ ix > 0 => /\ q.bbox[1] = tiles[q.i - 1][3]
                                 /\ q.bbox[2] = tiles[q.i - 1][2]
                    /\ (ix = 0 /\ iy > 0) =>
                                 /\ q.bbox[1] = tiles[1][1]
                                 /\ q.bbox[2] = tiles[q.i - nx][4]
  /\ pc = "mosaic" => Len(parts) = Len(tiles)
  /\ \A m \in 1 .. Len(mosaics) :
       /\ Len(mosaics[m].parts) = Len(mosaics[m].plan)
       /\ \A k \in 1 .. Len(requests) :
            requests[k].row = mosaics[m].row => k <= mosaics[m].at
       /\ \A i \in 1 .. Len(mosaics[m].plan) :
            \E k \in 1 .. mosaics[m].at :
              /\ requests[k].row = mosaics[m].row
              /\ requests[k].i = i
              /\ requests[k].ok
              /\ requests[k].bbox = mosaics[m].plan[i]
              /\ requests[k].path = mosaics[m].parts[i]

\* a plan of two rows of two tiles has been fetched and its mosaic started
C8_Witness ==
  \E m \in 1 .. Len(mosaics) :
    /\ Len(mosaics[m].plan) = 4
    /\ mosaics[m].how = "vrt"

\* C9 as stated: the metadata query to the base endpoint is issued exactly
\* once per invocation.
C9_OneMetadataQuery ==
  /\ metaQueries <= 1
  /\ pc # "start" => metaQueries = 1

\* C9 amended: fetch_service_info runs exactly once per invocation, before
\* any tile request; the base endpoint is queried once by it and once more by
\* every call of clip_bbox_to_service_extent, one call per area.
C9_OneInfoFetch ==
  /\ infoFetches = IF pc = "start" THEN 0 ELSE 1
  /\ metaQueries = infoFetches + clips
  /\ clips = IF pc = "clip" THEN row - 1 ELSE row
  /\ clips <= NumAreas
  /\ requests # << >> => (infoFetches = 1 /\ service # None)

\* a run over two rows has ended: three queries of the base endpoint, one of
\* them by fetch_service_info
C9_Witness ==
  /\ pc = "done"
  /\ infoFetches = 1
  /\ clips = 2
  /\ metaQueries = 3
  /\ Len(requests) >= 2

====
